---- MODULE Spec2Model ----
(***************************************************************************)
(* A model of src/task_manager.py: the TaskManager store (the in-memory    *)
(* list self.tasks), its backing JSON file, and the methods that load,     *)
(* save and mutate it.                                                     *)
(*                                                                         *)
(* Encoding of Python values:                                              *)
(*   - the str fields priority and status, which the code only compares   *)
(*     for equality, are TLA+ strings; a description, a category and a due *)
(*     date are sequences of one-character strings, so that lower(), the   *)
(*     substring test, string order and strptime/strftime can be computed  *)
(*     on them ("" is << >>);                                              *)
(*   - an Optional argument is << >> for None and <<v>> for a value v;     *)
(*   - datetime.now().isoformat() is the integer instant of the clock      *)
(*     (ISO strings compare as instants do), and each read of the clock    *)
(*     returns a later instant than the one before; completed_at is << >>  *)
(*     for None and <<t>> once set;                                        *)
(*   - a file is [kind, items]: "missing", "garbage" (unreadable or not    *)
(*     JSON), "notlist" (JSON, but no top-level list), "partial" (a prefix *)
(*     of a JSON text still being written) or "list" with its items; an    *)
(*     item is [dict |-> TRUE, obj |-> <JSON object>] or, for any other    *)
(*     JSON value, [dict |-> FALSE, obj |-> [n |-> 0]].                    *)
(***************************************************************************)
EXTENDS Integers, Sequences, FiniteSets, TLC

\* ------------------------------------------------------------------ bounds
\* add_task is not called once the collection holds MaxTasks records.
MaxTasks == 2
\* add_task is not called when it would issue an id above MaxId.
MaxId == 3
\* datetime.now() is read at most MaxClock times after the store is
\* constructed: add_task and complete_task are not called beyond that.
MaxClock == 2
\* sort_tasks is applied to collections of at most MaxSortLen records.
MaxSortLen == 4
\* The data files of earlier revisions hold at most MaxEntries entries.
MaxEntries == 2
\* save_tasks fails at most MaxFails times.
MaxFails == 1

VARIABLES
    tasks,    \* self.tasks: the in-memory collection, a sequence of task dicts
    file,     \* the content at self.data_file
    tmp,      \* the content of the temporary file of the save in progress
    pc,       \* where the store is: "idle", or inside save_tasks
    result,   \* the call in progress or last finished, and what it returned
    now,      \* the instant datetime.now() returned last
    issued,   \* the ids add_task has returned on this store object
    fails,    \* how many times save_tasks has failed
    peer      \* a second TaskManager constructed on the same data file, if
              \* there is one: its tasks, its temporary file, where it is,
              \* its result

vars == <<tasks, file, tmp, pc, result, now, issued, fails, peer>>

\* ------------------------------------------------------- Python's values
\* Python's None where an int id is expected (the id key of a loaded entry
\* that has none); ids in JSON files are integers >= 0 here.
NoneId == 0 - 1

None == << >>

Some(v) == <<v>>

IsNone(o) == Len(o) = 0

\* Python's truthiness of an Optional[str] argument: not None and not "".
Truthy(o) == Len(o) = 1 /\ o[1] # ""

\* The same for an argument whose text is a sequence of characters.
TruthyText(o) == Len(o) = 1 /\ Len(o[1]) # 0

Priorities == {"high", "medium", "low"}

\* -------------------------------------------------------------- the files
MissingFile == [kind |-> "missing", items |-> << >>]

GarbageFile == [kind |-> "garbage", items |-> << >>]

NotListFile == [kind |-> "notlist", items |-> << >>]

PartialFile == [kind |-> "partial", items |-> << >>]

\* A file whose bytes are no text in the encoding open() decodes with.
UndecodableFile == [kind |-> "undecodable", items |-> << >>]

NotADict == [dict |-> FALSE, obj |-> [n |-> 0]]

\* json.dump(self.tasks, tmp, indent=2): the list of the task dicts as JSON
\* objects.
Dump(ts) ==
    [kind |-> "list",
     items |-> [i \in 1..Len(ts) |-> [dict |-> TRUE, obj |-> ts[i]]]]

\* dict.setdefault(k, v)
SetDefault(obj, k, v) == IF k \in DOMAIN obj THEN obj ELSE obj @@ (k :> v)

\* A faulty Backfill, assigning completed_at instead of defaulting it:
\* item["completed_at"] = None.
BackfillResets(item, t) ==
    LET a == SetDefault(item, "id", NoneId)
        b == SetDefault(a, "description", << >>)
        c == SetDefault(b, "priority", "medium")
        d == SetDefault(c, "status", "pending")
        e == SetDefault(d, "created_at", t)
        f == [k \in DOMAIN e \cup {"completed_at"} |->
                 IF k = "completed_at" THEN None ELSE e[k]]
        g == SetDefault(f, "category", << >>)
    IN  SetDefault(g, "due_date", << >>)

\* A faulty Backfill, assigning the optional fields instead of defaulting
\* them: item["category"] = "" and item["due_date"] = "".
BackfillBlanks(item, t) ==
    LET a == SetDefault(item, "id", NoneId)
        b == SetDefault(a, "description", << >>)
        c == SetDefault(b, "priority", "medium")
        d == SetDefault(c, "status", "pending")
        e == SetDefault(d, "created_at", t)
        f == SetDefault(e, "completed_at", None)
    IN  [k \in DOMAIN f \cup {"category", "due_date"} |->
            IF k \in {"category", "due_date"} THEN << >> ELSE f[k]]

\* The body of load_tasks' loop for one dict item, read at instant t.
Backfill(item, t) ==
    LET a == SetDefault(item, "id", NoneId)
        b == SetDefault(a, "description", << >>)
        c == SetDefault(b, "priority", "medium")
        d == SetDefault(c, "status", "pending")
        e == SetDefault(d, "created_at", t)
        f == SetDefault(e, "completed_at", None)
        g == SetDefault(f, "category", << >>)
    IN  SetDefault(g, "due_date", << >>)

RECURSIVE Cleaned(_, _)
Cleaned(items, t) ==
    IF Len(items) = 0 THEN << >>
    ELSE IF Head(items).dict
         THEN <<Backfill(Head(items).obj, t)>> \o Cleaned(Tail(items), t)
         ELSE Cleaned(Tail(items), t)

\* load_tasks at instant t on a data file holding f.
load_tasks(f, t) == IF f.kind = "list" THEN Cleaned(f.items, t) ELSE << >>

\* load_tasks raises: json.load reads the file through the text decoder,
\* whose UnicodeDecodeError is a ValueError that is neither a
\* JSONDecodeError nor an IOError, so the except clause lets it pass.
LoadRaises(f) == f.kind = "undecodable"

\* ---------------------------------------------------------- due dates
Digits == <<"0", "1", "2", "3", "4", "5", "6", "7", "8", "9">>

IsDigit(c) == \E i \in 1..10 : Digits[i] = c

DigitVal(c) == (CHOOSE i \in 1..10 : Digits[i] = c) - 1

AllDigits(s) == \A i \in 1..Len(s) : IsDigit(s[i])

RECURSIVE NumVal(_)
NumVal(s) ==
    IF Len(s) = 0 THEN 0
    ELSE 10 * NumVal(SubSeq(s, 1, Len(s) - 1)) + DigitVal(s[Len(s)])

IsLeap(y) == (y % 4 = 0 /\ y % 100 # 0) \/ y % 400 = 0

DaysInMonth(y, m) ==
    IF m = 2 THEN (IF IsLeap(y) THEN 29 ELSE 28)
    ELSE IF m \in {4, 6, 9, 11} THEN 30 ELSE 31

\* %m of strptime: 1[0-2]|0[1-9]|[1-9]
MonthField(s) == Len(s) \in {1, 2} /\ AllDigits(s) /\ NumVal(s) \in 1..12

\* %d of strptime: 3[01]|[12]\d|0[1-9]|[1-9]| [1-9]
DayField(s) ==
    \/ Len(s) \in {1, 2} /\ AllDigits(s) /\ NumVal(s) \in 1..31
    \/ Len(s) = 2 /\ s[1] = " " /\ IsDigit(s[2]) /\ s[2] # "0"

DayVal(s) == IF s[1] = " " THEN DigitVal(s[2]) ELSE NumVal(s)

\* The decimal numeral of n in at least w digits, zero-padded.
RECURSIVE Numeral(_, _)
Numeral(n, w) ==
    IF n < 10 /\ w <= 1 THEN <<Digits[n + 1]>>
    ELSE Numeral(n \div 10, w - 1) \o <<Digits[(n % 10) + 1]>>

\* datetime.strptime(s, "%Y-%m-%d"): [ok, y, m, d]; not ok is ValueError.
\* %Y is \d\d\d\d, then "-", %m, "-", %d, and nothing may remain; the date
\* must exist (year >= 1, day within the month).
Strptime(s) ==
    LET bad == [ok |-> FALSE, y |-> 0, m |-> 0, d |-> 0]
        dashes == {i \in 6..Len(s) : s[i] = "-"}
    IN  IF Len(s) < 8 \/ ~AllDigits(SubSeq(s, 1, 4)) \/ s[5] # "-" \/ dashes = {}
        THEN bad
        ELSE LET k == CHOOSE i \in dashes : \A j \in dashes : i <= j
                 ms == SubSeq(s, 6, k - 1)
                 ds == SubSeq(s, k + 1, Len(s))
             IN  IF ~MonthField(ms) \/ Len(ds) = 0 THEN bad
                 ELSE IF ~DayField(ds) THEN bad
                 ELSE LET y == NumVal(SubSeq(s, 1, 4))
                          m == NumVal(ms)
                          d == DayVal(ds)
                      IN  IF y < 1 \/ d > DaysInMonth(y, m) THEN bad
                          ELSE [ok |-> TRUE, y |-> y, m |-> m, d |-> d]

\* dt.strftime("%Y-%m-%d"): %m and %d are zero-padded to two digits; the C
\* library's %Y prints the year's digits without padding.
Strftime(dt) ==
    Numeral(dt.y, 1) \o <<"-">> \o Numeral(dt.m, 2) \o <<"-">> \o Numeral(dt.d, 2)

\* _normalize_due_date: [ok, val]; not ok is the ValueError it raises.
normalize_due_date(due_date) ==
    IF Len(due_date) = 0 THEN [ok |-> TRUE, val |-> << >>]
    ELSE LET dt == Strptime(due_date)
         IN  IF dt.ok THEN [ok |-> TRUE, val |-> Strftime(dt)]
             ELSE [ok |-> FALSE, val |-> << >>]

\* ------------------------------------------------------- the collection
Task(id, description, priority, created_at, category, due_date) ==
    [id |-> id, description |-> description, priority |-> priority,
     status |-> "pending", created_at |-> created_at, completed_at |-> None,
     category |-> category, due_date |-> due_date]

\* t.get("id") or 0
IdOrZero(t) == IF t.id = NoneId THEN 0 ELSE t.id

Max(S) == CHOOSE m \in S : \A n \in S : n <= m

\* A faulty new_id, counting the tasks instead of taking the largest id:
\* len(self.tasks) + 1.
new_id_by_count(ts) == Len(ts) + 1

\* max((t.get("id") or 0 for t in self.tasks), default=0) + 1
new_id(ts) ==
    IF Len(ts) = 0 THEN 1
    ELSE Max({IdOrZero(ts[i]) : i \in 1..Len(ts)}) + 1

\* The index of the first task whose id is task_id, 0 when there is none:
\* the task the loops of complete_task, delete_task and update_task stop at.
FirstIndex(ts, task_id) ==
    IF \E i \in 1..Len(ts) : ts[i].id = task_id
    THEN CHOOSE i \in 1..Len(ts) :
             /\ ts[i].id = task_id
             /\ \A j \in 1..(i - 1) : ts[j].id # task_id
    ELSE 0

\* del self.tasks[i]
RemoveAt(ts, i) == SubSeq(ts, 1, i - 1) \o SubSeq(ts, i + 1, Len(ts))

\* A faulty Updated, building the task anew from the arguments, which loses
\* its status and completed_at.
UpdatedRebuilt(task, description, priority, category, due_date) ==
    [id |-> task.id,
     description |-> IF TruthyText(description) THEN description[1]
                     ELSE task.description,
     priority |-> IF Truthy(priority) THEN priority[1] ELSE task.priority,
     status |-> "pending", created_at |-> task.created_at,
     completed_at |-> None,
     category |-> IF ~IsNone(category) THEN category[1] ELSE task.category,
     due_date |-> IF ~IsNone(due_date) THEN due_date[1] ELSE task.due_date]

\* A faulty Updated, testing category and due_date for truth as it does
\* description and priority, so that an empty string does not clear them.
UpdatedKeepsOnEmpty(task, description, priority, category, due_date) ==
    LET a == IF TruthyText(description)
             THEN [task EXCEPT !.description = description[1]] ELSE task
        b == IF Truthy(priority)
             THEN [a EXCEPT !.priority = priority[1]] ELSE a
        c == IF TruthyText(category)
             THEN [b EXCEPT !.category = category[1]] ELSE b
    IN  IF TruthyText(due_date) THEN [c EXCEPT !.due_date = due_date[1]] ELSE c

\* The assignments of update_task to the task it found.
Updated(task, description, priority, category, due_date) ==
    LET a == IF TruthyText(description)
             THEN [task EXCEPT !.description = description[1]] ELSE task
        b == IF Truthy(priority)
             THEN [a EXCEPT !.priority = priority[1]] ELSE a
        c == IF ~IsNone(category)
             THEN [b EXCEPT !.category = category[1]] ELSE b
    IN  IF ~IsNone(due_date) THEN [c EXCEPT !.due_date = due_date[1]] ELSE c

\* The assignments of complete_task to the task it found, at instant t.
Completed(task, t) ==
    [task EXCEPT !.status = "completed", !.completed_at = Some(t)]

\* ---------------------------------------------------------- the queries
UpperCase ==
    <<"A", "B", "C", "D", "E", "F", "G", "H", "I", "J", "K", "L", "M",
      "N", "O", "P", "Q", "R", "S", "T", "U", "V", "W", "X", "Y", "Z">>

LowerCase ==
    <<"a", "b", "c", "d", "e", "f", "g", "h", "i", "j", "k", "l", "m",
      "n", "o", "p", "q", "r", "s", "t", "u", "v", "w", "x", "y", "z">>

LowerChar(c) ==
    IF \E i \in 1..26 : UpperCase[i] = c
    THEN LowerCase[CHOOSE i \in 1..26 : UpperCase[i] = c]
    ELSE c

\* str.lower()
lower(s) == [i \in 1..Len(s) |-> LowerChar(s[i])]

\* k in s, for strings: k occurs in s as a substring.
Contains(k, s) ==
    \E i \in 0..(Len(s) - Len(k)) : SubSeq(s, i + 1, i + Len(k)) = k

\* search_tasks(keyword): the list it returns.
search_tasks(ts, keyword) ==
    LET keyword_lower == lower(keyword)
        Match(task) == \/ Contains(keyword_lower, lower(task.description))
                       \/ Contains(keyword_lower, lower(task.category))
    IN  SelectSeq(ts, Match)

\* list_tasks_by_category(category): the list filtered_tasks it prints.
list_tasks_by_category(ts, category) ==
    LET Match(task) == lower(task.category) = lower(category)
    IN  SelectSeq(ts, Match)

\* A faulty get_statistics, counting the high-priority tasks whatever their
\* status.
get_statistics_any_status(ts) ==
    LET IsCompleted(t) == t.status = "completed"
        IsPending(t) == t.status = "pending"
        IsHigh(t) == t.priority = "high"
    IN  [total |-> Len(ts),
         completed |-> Len(SelectSeq(ts, IsCompleted)),
         pending |-> Len(SelectSeq(ts, IsPending)),
         high_priority_pending |-> Len(SelectSeq(ts, IsHigh))]

\* get_statistics(): the dict it returns.
get_statistics(ts) ==
    LET IsCompleted(t) == t.status = "completed"
        IsPending(t) == t.status = "pending"
        IsHighPending(t) == t.priority = "high" /\ t.status = "pending"
    IN  [total |-> Len(ts),
         completed |-> Len(SelectSeq(ts, IsCompleted)),
         pending |-> Len(SelectSeq(ts, IsPending)),
         high_priority_pending |-> Len(SelectSeq(ts, IsHighPending))]

\* list.sort(key=...): the stable sort of ts by the strict order of the
\* keys, less[j, i] telling whether the key of ts[j] is smaller than that of
\* ts[i]: a record goes after the records of a smaller key and after the
\* records of an equal key that stood before it.
StableSorted(ts, less) ==
    LET n == Len(ts)
        Before(j, i) ==
            \/ less[j, i]
            \/ ~less[i, j] /\ j < i
        pos(i) == 1 + Cardinality({j \in 1..n : Before(j, i)})
    IN  [k \in 1..n |-> ts[CHOOSE i \in 1..n : pos(i) = k]]

\* priority_order.get(x.get("priority", "medium"), 3)
priority_order(p) ==
    IF p = "high" THEN 1
    ELSE IF p = "medium" THEN 2
    ELSE 3

\* The code point of a character of a due date.
Ord(c) == IF c = " " THEN 32 ELSE IF c = "-" THEN 45 ELSE 48 + DigitVal(c)

\* a < b for Python strings: the order of the code points at the first
\* difference, a proper prefix being smaller.
RECURSIVE StrLess(_, _)
StrLess(a, b) ==
    IF Len(b) = 0 THEN FALSE
    ELSE IF Len(a) = 0 THEN TRUE
    ELSE IF Head(a) = Head(b) THEN StrLess(Tail(a), Tail(b))
    ELSE Ord(Head(a)) < Ord(Head(b))

\* x.get("due_date") or "9999-12-31"
DueOrLast(t) ==
    IF Len(t.due_date) = 0
    THEN <<"9", "9", "9", "9", "-", "1", "2", "-", "3", "1">>
    ELSE t.due_date

\* A faulty sort_tasks, whose priority key is the rank alone:
\* key=lambda x: priority_order.get(x.get("priority", "medium"), 3).
sort_tasks_by_rank_only(ts, sort_by) ==
    LET ByPriority(x, y) == priority_order(x.priority) < priority_order(y.priority)
        ByDate(x, y) == x.created_at > y.created_at
        ByDue(x, y) ==
            \/ StrLess(DueOrLast(x), DueOrLast(y))
            \/ DueOrLast(x) = DueOrLast(y) /\ x.id < y.id
    IN  IF sort_by = "priority" THEN StableSorted(ts, [i, j \in 1..Len(ts) |->
                                    ByPriority(ts[i], ts[j])])
        ELSE IF sort_by = "date" THEN StableSorted(ts, [i, j \in 1..Len(ts) |->
                                    ByDate(ts[i], ts[j])])
        ELSE IF sort_by = "due_date" THEN StableSorted(ts, [i, j \in 1..Len(ts) |->
                                    ByDue(ts[i], ts[j])])
        ELSE ts

\* sort_tasks(sort_by): the sorted copy it returns. The ids of the records
\* are integers: the tuples of the keys are compared, and Python raises a
\* TypeError when it has to compare None with an integer.
sort_tasks(ts, sort_by) ==
    LET ByPriority(x, y) ==
            \/ priority_order(x.priority) < priority_order(y.priority)
            \/ /\ priority_order(x.priority) = priority_order(y.priority)
               /\ x.id < y.id
        ByDate(x, y) == x.created_at > y.created_at
        ByDue(x, y) ==
            \/ StrLess(DueOrLast(x), DueOrLast(y))
            \/ DueOrLast(x) = DueOrLast(y) /\ x.id < y.id
    IN  IF sort_by = "priority" THEN StableSorted(ts, [i, j \in 1..Len(ts) |->
                                    ByPriority(ts[i], ts[j])])
        ELSE IF sort_by = "date" THEN StableSorted(ts, [i, j \in 1..Len(ts) |->
                                    ByDate(ts[i], ts[j])])
        ELSE IF sort_by = "due_date" THEN StableSorted(ts, [i, j \in 1..Len(ts) |->
                                    ByDue(ts[i], ts[j])])
        ELSE ts

\* ------------------------------------------------------------ the inputs
DueLeap == <<"2", "0", "2", "4", "-", "0", "2", "-", "2", "9">>

DueShort == <<"2", "0", "2", "4", "-", "2", "-", "9">>

DueNoSuchDay == <<"2", "0", "2", "4", "-", "0", "2", "-", "3", "0">>

TextWork == <<"w", "o", "r", "k">>

TextHome == <<"h", "o", "m", "e">>

\* The calls of add_task: the defaults; an empty description with a
\* recognized priority, a category and a date strptime accepts unpadded; an
\* unrecognized priority; a date that does not exist.
AddInputs ==
    {[description |-> <<"a">>, priority |-> "medium", category |-> << >>,
      due_date |-> << >>],
     [description |-> << >>, priority |-> "high", category |-> TextWork,
      due_date |-> DueShort],
     [description |-> <<"a">>, priority |-> "urgent", category |-> << >>,
      due_date |-> << >>],
     [description |-> <<"b">>, priority |-> "high", category |-> TextWork,
      due_date |-> DueNoSuchDay]}

IdInputs == 1..MaxId

\* The calls of update_task: nothing supplied; every field supplied, with an
\* unrecognized priority and a date that does not exist; every field
\* supplied as the empty string.
UpdateInputs ==
    {[description |-> None, priority |-> None, category |-> None,
      due_date |-> None],
     [description |-> Some(<<"b">>), priority |-> Some("urgent"),
      category |-> Some(TextHome), due_date |-> Some(DueNoSuchDay)],
     [description |-> Some(<< >>), priority |-> Some(""),
      category |-> Some(<< >>), due_date |-> Some(<< >>)]}

TextBuy == <<"B", "u", "y">>

TextOffice == <<"O", "f", "f", "i", "c", "e">>

\* The calls of add_task in the specification with the queries: the
\* defaults; every argument supplied, in mixed case and with a date that
\* strptime accepts unpadded.
QueryAddInputs ==
    {[description |-> <<"a">>, priority |-> "medium", category |-> << >>,
      due_date |-> << >>],
     [description |-> TextBuy, priority |-> "high", category |-> TextOffice,
      due_date |-> DueShort]}

\* The keywords of search_tasks and the categories of
\* list_tasks_by_category: the texts of the add calls, a part of one in
\* another case, the empty text and a text no task has.
QueryTexts ==
    {<<"a">>, TextBuy, TextOffice, <<"F", "F", "I">>, << >>, TextHome}

\* A file written by an older revision: one entry that is no object, and one
\* task without category, due_date and completed_at, whose id leaves a gap.
LegacyFile ==
    [kind |-> "list",
     items |-> <<NotADict,
                 [dict |-> TRUE,
                  obj |-> [id |-> 2, description |-> <<"a">>,
                           priority |-> "medium", status |-> "pending",
                           created_at |-> 0]]>>]

\* A file this program saved: two tasks, ids out of order.
SavedFile == Dump(<<Task(3, <<"a">>, "medium", 0, << >>, << >>),
                    Task(1, <<"a">>, "urgent", 0, << >>, DueLeap)>>)

InitFiles == {MissingFile, GarbageFile, NotListFile, LegacyFile, SavedFile}

\* ---------------------------------------------------------- the results
Result(op, ret, val) == [op |-> op, ret |-> ret, val |-> val]

\* ------------------------------------------------------------ the store
\* The fields of a TaskManager and where it is in its call.
Store(ts, t, p, r) == [tasks |-> ts, tmp |-> t, pc |-> p, result |-> r]

\* No second TaskManager has been constructed.
NoStore == Store(<< >>, MissingFile, "none", Result("none", "none", 0))

\* TaskManager(data_file): the store as constructed on a data file.
Init ==
    /\ file \in InitFiles
    /\ now = 0
    /\ tasks = load_tasks(file, now)
    /\ tmp = MissingFile
    /\ pc = "idle"
    /\ result = Result("load", "none", 0)
    /\ issued = {}
    /\ fails = 0
    /\ peer = NoStore

\* A faulty add_task, appending the task before it validates the due date.
AddTaskAppendsFirst(description, priority, category, due_date) ==
    /\ pc = "idle"
    /\ Len(tasks) < MaxTasks
    /\ new_id(tasks) <= MaxId
    /\ now < MaxClock
    /\ now' = now + 1
    /\ LET n == normalize_due_date(due_date)
       IN  /\ tasks' = Append(tasks, Task(new_id(tasks), description,
                                          priority, now', category, n.val))
           /\ IF ~n.ok
              THEN /\ result' = Result("add", "ValueError", 0)
                   /\ UNCHANGED <<file, tmp, pc, issued, fails, peer>>
              ELSE /\ pc' = "save"
                   /\ result' = Result("add", "pending", new_id(tasks))
                   /\ UNCHANGED <<file, tmp, issued, fails, peer>>

\* add_task up to its call of save_tasks, or to the ValueError it raises.
AddTask(description, priority, category, due_date) ==
    /\ pc = "idle"
    /\ LET n == normalize_due_date(due_date)
       IN  IF ~n.ok
           THEN /\ result' = Result("add", "ValueError", 0)
                /\ UNCHANGED <<tasks, file, tmp, pc, now, issued, fails, peer>>
           ELSE /\ Len(tasks) < MaxTasks
                /\ new_id(tasks) <= MaxId
                /\ now < MaxClock
                /\ now' = now + 1
                /\ tasks' = Append(tasks, Task(new_id(tasks), description,
                                               priority, now', category, n.val))
                /\ pc' = "save"
                /\ result' = Result("add", "pending", new_id(tasks))
                /\ UNCHANGED <<file, tmp, issued, fails, peer>>

\* A faulty complete_task, calling save_tasks and returning True after its
\* loop, whether or not it found the task.
CompleteTaskSavesAnyway(task_id) ==
    /\ pc = "idle"
    /\ LET i == FirstIndex(tasks, task_id)
       IN  /\ tasks' = IF i = 0 THEN tasks
                       ELSE [tasks EXCEPT ![i] = Completed(tasks[i], now)]
           /\ pc' = "save"
           /\ result' = Result("complete", "pending", 0)
           /\ UNCHANGED <<file, tmp, now, issued, fails, peer>>

\* complete_task up to its call of save_tasks, or to its return of False.
CompleteTask(task_id) ==
    /\ pc = "idle"
    /\ LET i == FirstIndex(tasks, task_id)
       IN  IF i = 0
           THEN /\ result' = Result("complete", "False", 0)
                /\ UNCHANGED <<tasks, file, tmp, pc, now, issued, fails, peer>>
           ELSE /\ now < MaxClock
                /\ now' = now + 1
                /\ tasks' = [tasks EXCEPT ![i] = Completed(tasks[i], now')]
                /\ pc' = "save"
                /\ result' = Result("complete", "pending", 0)
                /\ UNCHANGED <<file, tmp, issued, fails, peer>>

\* delete_task up to its call of save_tasks, or to its return of False.
DeleteTask(task_id) ==
    /\ pc = "idle"
    /\ LET i == FirstIndex(tasks, task_id)
       IN  IF i = 0
           THEN /\ result' = Result("delete", "False", 0)
                /\ UNCHANGED <<tasks, file, tmp, pc, now, issued, fails, peer>>
           ELSE /\ tasks' = RemoveAt(tasks, i)
                /\ pc' = "save"
                /\ result' = Result("delete", "pending", 0)
                /\ UNCHANGED <<file, tmp, now, issued, fails, peer>>

\* A faulty update_task, returning True without calling save_tasks.
UpdateTaskNoSave(task_id, description, priority, category, due_date) ==
    /\ pc = "idle"
    /\ LET i == FirstIndex(tasks, task_id)
       IN  IF i = 0
           THEN /\ result' = Result("update", "False", 0)
                /\ UNCHANGED <<tasks, file, tmp, pc, now, issued, fails, peer>>
           ELSE /\ tasks' = [tasks EXCEPT ![i] =
                                Updated(tasks[i], description, priority,
                                        category, due_date)]
                /\ result' = Result("update", "True", 0)
                /\ UNCHANGED <<file, tmp, pc, now, issued, fails, peer>>

\* update_task up to its call of save_tasks, or to its return of False.
UpdateTask(task_id, description, priority, category, due_date) ==
    /\ pc = "idle"
    /\ LET i == FirstIndex(tasks, task_id)
       IN  IF i = 0
           THEN /\ result' = Result("update", "False", 0)
                /\ UNCHANGED <<tasks, file, tmp, pc, now, issued, fails, peer>>
           ELSE /\ tasks' = [tasks EXCEPT ![i] =
                                Updated(tasks[i], description, priority,
                                        category, due_date)]
                /\ pc' = "save"
                /\ result' = Result("update", "pending", 0)
                /\ UNCHANGED <<file, tmp, now, issued, fails, peer>>

\* search_tasks(keyword): it returns search_tasks(tasks, keyword) and
\* assigns nothing.
SearchTasks(keyword) ==
    /\ pc = "idle"
    /\ result' = Result("search", "list", Len(search_tasks(tasks, keyword)))
    /\ UNCHANGED <<tasks, file, tmp, pc, now, issued, fails, peer>>

\* list_tasks_by_category(category): it prints
\* list_tasks_by_category(tasks, category) and assigns nothing.
ListTasksByCategory(category) ==
    /\ pc = "idle"
    /\ result' = Result("list_by_category", "none",
                        Len(list_tasks_by_category(tasks, category)))
    /\ UNCHANGED <<tasks, file, tmp, pc, now, issued, fails, peer>>

\* get_statistics(): it returns get_statistics(tasks) and assigns nothing.
GetStatistics ==
    /\ pc = "idle"
    /\ result' = Result("statistics", "dict", get_statistics(tasks).total)
    /\ UNCHANGED <<tasks, file, tmp, pc, now, issued, fails, peer>>

\* sort_tasks(sort_by): it sorts a copy of self.tasks, returns it and
\* assigns nothing.
SortTasks(sort_by) ==
    /\ pc = "idle"
    /\ result' = Result("sort", sort_by, Len(sort_tasks(tasks, sort_by)))
    /\ UNCHANGED <<tasks, file, tmp, pc, now, issued, fails, peer>>

\* A faulty first step of save_tasks, opening the data file itself for
\* writing, which truncates it.
SaveOpenInPlace ==
    /\ pc = "save"
    /\ file' = PartialFile
    /\ pc' = "dump"
    /\ UNCHANGED <<tasks, tmp, result, now, issued, fails, peer>>

\* save_tasks, first step: NamedTemporaryFile creates an empty temporary
\* file in the directory of the data file.
SaveOpenTmp ==
    /\ pc = "save"
    /\ tmp' = PartialFile
    /\ pc' = "dump"
    /\ UNCHANGED <<tasks, file, result, now, issued, fails, peer>>

\* save_tasks, second step: json.dump writes the collection to the temporary
\* file, which the with block closes.
SaveDump ==
    /\ pc = "dump"
    /\ tmp' = Dump(tasks)
    /\ pc' = "replace"
    /\ UNCHANGED <<tasks, file, result, now, issued, fails, peer>>

\* What the call in progress returns once save_tasks has returned.
Returned(r) ==
    IF r.op = "add" THEN Result("add", "id", r.val)
    ELSE Result(r.op, "True", 0)

\* save_tasks, last step: os.replace moves the temporary file onto the data
\* file; the finally block finds no temporary file, and the caller returns.
SaveReplace ==
    /\ pc = "replace"
    /\ file' = tmp
    /\ tmp' = MissingFile
    /\ pc' = "idle"
    /\ result' = Returned(result)
    /\ issued' = IF result.op = "add" THEN issued \cup {result.val} ELSE issued
    /\ UNCHANGED <<tasks, now, fails, peer>>

\* A faulty failure of save_tasks, the exception caught and dropped inside
\* save_tasks, so that the caller returns its success value.
SaveFailSwallowed ==
    /\ pc \in {"save", "dump", "replace"}
    /\ fails < MaxFails
    /\ fails' = fails + 1
    /\ tmp' = MissingFile
    /\ pc' = "idle"
    /\ result' = Returned(result)
    /\ UNCHANGED <<tasks, file, now, issued, peer>>

\* save_tasks fails (the temporary file cannot be created or written, or
\* os.replace fails): the finally block removes the temporary file if there
\* is one and the OSError leaves save_tasks and its caller.
SaveFail ==
    /\ pc \in {"save", "dump", "replace"}
    /\ fails < MaxFails
    /\ fails' = fails + 1
    /\ tmp' = MissingFile
    /\ pc' = "idle"
    /\ result' = Result(result.op, "OSError", 0)
    /\ UNCHANGED <<tasks, file, now, issued, peer>>

\* The process dies and the program is started again: a new TaskManager
\* loads the data file; the dead process's temporary file is left under a
\* name no later save uses.
Restart ==
    /\ tasks' = load_tasks(file, now)
    /\ tmp' = MissingFile
    /\ pc' = "idle"
    /\ result' = Result("load", "none", 0)
    /\ issued' = {}
    /\ UNCHANGED <<file, now, fails, peer>>

Next ==
    \/ \E a \in AddInputs :
          AddTask(a.description, a.priority, a.category, a.due_date)
    \/ \E id \in IdInputs : CompleteTask(id)
    \/ \E id \in IdInputs : DeleteTask(id)
    \/ \E id \in IdInputs, u \in UpdateInputs :
          UpdateTask(id, u.description, u.priority, u.category, u.due_date)
    \/ SaveOpenTmp
    \/ SaveDump
    \/ SaveReplace

\* One store on its data file, every save succeeding.
Spec == Init /\ [][Next]_vars

NextFail ==
    \/ Next
    \/ SaveFail

InitEmpty ==
    /\ Init
    /\ Len(tasks) = 0

\* A store that started empty: its data file missing, unreadable or not a
\* list.
SpecEmpty == InitEmpty /\ [][Next]_vars

\* A store that started empty, with saves that may fail.
SpecFail == InitEmpty /\ [][NextFail]_vars

NextCrash ==
    \/ Next
    \/ Restart

\* The store with crashes of its process.
SpecCrash == Init /\ [][NextCrash]_vars

\* A JSON list none of whose entries is an object.
NotRecordsFile == [kind |-> "list", items |-> <<NotADict, NotADict>>]

RecoverFiles ==
    {MissingFile, GarbageFile, UndecodableFile, NotListFile, NotRecordsFile}

\* TaskManager(data_file) on a data file that holds no collection: the store
\* as constructed, or the constructor left by the exception of load_tasks.
InitRecover ==
    /\ file \in RecoverFiles
    /\ now = 0
    /\ tmp = MissingFile
    /\ issued = {}
    /\ fails = 0
    /\ peer = NoStore
    /\ IF LoadRaises(file)
       THEN /\ tasks = << >>
            /\ pc = "raised"
            /\ result = Result("load", "UnicodeDecodeError", 0)
       ELSE /\ tasks = load_tasks(file, now)
            /\ pc = "idle"
            /\ result = Result("load", "none", 0)

\* The store on a data file that holds no collection.
SpecRecover == InitRecover /\ [][Next]_vars

\* The criteria of sort_tasks: its three keys and its default.
SortKeys == {"priority", "date", "due_date", "id"}

SortPriorities == {"high", "medium", "low", "urgent"}

\* The collections sort_tasks is applied to: n records, their ids 1..n in
\* ascending or descending stored order, each created at the instant of its
\* id, with any priorities; the records of an even id have a due date.
SortCollections ==
    UNION {{[i \in 1..n |->
                LET id == IF up THEN i ELSE n + 1 - i
                IN  Task(id, <<"a">>, pr[i], id, << >>,
                         IF id % 2 = 0 THEN DueLeap ELSE << >>)] :
               pr \in [1..n -> SortPriorities], up \in BOOLEAN} :
           n \in 0..MaxSortLen}

\* A store whose last save wrote one of these collections.
InitSort ==
    /\ tasks \in SortCollections
    /\ file = Dump(tasks)
    /\ now = MaxSortLen
    /\ tmp = MissingFile
    /\ pc = "idle"
    /\ result = Result("load", "none", 0)
    /\ issued = {}
    /\ fails = 0
    /\ peer = NoStore

NextSort == \E sort_by \in SortKeys : SortTasks(sort_by)

\* sort_tasks applied to the collections of SortCollections.
SpecSort == InitSort /\ [][NextSort]_vars

\* ------------------------------------------- two stores on one data file
\* The second store with its fields t assigned.
PeerWith(t) == [k \in DOMAIN peer |-> IF k \in DOMAIN t THEN t[k] ELSE peer[k]]

\* The calls of add_task the second store receives.
PeerAddInputs ==
    {[description |-> <<"b">>, priority |-> "low", category |-> TextHome,
      due_date |-> << >>]}

\* add_task of the second store, up to its call of save_tasks, or to the
\* ValueError it raises.
PeerAddTask(description, priority, category, due_date) ==
    /\ peer.pc = "idle"
    /\ LET n == normalize_due_date(due_date)
       IN  IF ~n.ok
           THEN /\ peer' = PeerWith([result |-> Result("add", "ValueError", 0)])
                /\ UNCHANGED <<tasks, file, tmp, pc, result, now, issued, fails>>
           ELSE /\ Len(peer.tasks) < MaxTasks
                /\ new_id(peer.tasks) <= MaxId
                /\ now < MaxClock
                /\ now' = now + 1
                /\ peer' = PeerWith(
                       [tasks |-> Append(peer.tasks,
                                         Task(new_id(peer.tasks), description,
                                              priority, now', category, n.val)),
                        pc |-> "save",
                        result |-> Result("add", "pending",
                                          new_id(peer.tasks))])
                /\ UNCHANGED <<tasks, file, tmp, pc, result, issued, fails>>

\* delete_task of the second store, up to its call of save_tasks, or to its
\* return of False.
PeerDeleteTask(task_id) ==
    /\ peer.pc = "idle"
    /\ LET i == FirstIndex(peer.tasks, task_id)
       IN  IF i = 0
           THEN peer' = PeerWith([result |-> Result("delete", "False", 0)])
           ELSE peer' = PeerWith([tasks |-> RemoveAt(peer.tasks, i),
                                  pc |-> "save",
                                  result |-> Result("delete", "pending", 0)])
    /\ UNCHANGED <<tasks, file, tmp, pc, result, now, issued, fails>>

\* save_tasks of the second store, first step: its temporary file has a
\* name of its own.
PeerSaveOpenTmp ==
    /\ peer.pc = "save"
    /\ peer' = PeerWith([tmp |-> PartialFile, pc |-> "dump"])
    /\ UNCHANGED <<tasks, file, tmp, pc, result, now, issued, fails>>

\* save_tasks of the second store, second step.
PeerSaveDump ==
    /\ peer.pc = "dump"
    /\ peer' = PeerWith([tmp |-> Dump(peer.tasks), pc |-> "replace"])
    /\ UNCHANGED <<tasks, file, tmp, pc, result, now, issued, fails>>

\* The items of file f followed by those of file g that f has not.
Merged(f, g) ==
    LET New(item) == \A i \in 1..Len(f.items) : f.items[i] # item
    IN  [kind |-> "list", items |-> f.items \o SelectSeq(g.items, New)]

\* A different last step of the second store's save_tasks, keeping the
\* tasks the data file has and adding those of the temporary file.
PeerSaveReplaceMerging ==
    /\ peer.pc = "replace"
    /\ file' = IF file.kind = "list" THEN Merged(file, peer.tmp) ELSE peer.tmp
    /\ peer' = PeerWith([tmp |-> MissingFile, pc |-> "idle",
                         result |-> Returned(peer.result)])
    /\ UNCHANGED <<tasks, tmp, pc, result, now, issued, fails>>

\* save_tasks of the second store, last step: os.replace moves its
\* temporary file onto the data file, whatever the data file holds.
PeerSaveReplace ==
    /\ peer.pc = "replace"
    /\ file' = peer.tmp
    /\ peer' = PeerWith([tmp |-> MissingFile, pc |-> "idle",
                         result |-> Returned(peer.result)])
    /\ UNCHANGED <<tasks, tmp, pc, result, now, issued, fails>>

\* Two TaskManager objects constructed on the same data file.
InitTwo ==
    /\ file \in InitFiles
    /\ now = 0
    /\ tasks = load_tasks(file, now)
    /\ tmp = MissingFile
    /\ pc = "idle"
    /\ result = Result("load", "none", 0)
    /\ issued = {}
    /\ fails = 0
    /\ peer = Store(load_tasks(file, now), MissingFile, "idle",
                    Result("load", "none", 0))

NextTwo ==
    \/ \E a \in AddInputs :
          AddTask(a.description, a.priority, a.category, a.due_date)
    \/ \E id \in IdInputs : DeleteTask(id)
    \/ SaveOpenTmp
    \/ SaveDump
    \/ SaveReplace
    \/ \E a \in PeerAddInputs :
          PeerAddTask(a.description, a.priority, a.category, a.due_date)
    \/ \E id \in IdInputs : PeerDeleteTask(id)
    \/ PeerSaveOpenTmp
    \/ PeerSaveDump
    \/ PeerSaveReplace

\* Two stores on one data file, the steps of their calls interleaved.
SpecTwo == InitTwo /\ [][NextTwo]_vars

\* The keys later revisions added to the task dict.
OptionalKeys == {"completed_at", "category", "due_date"}

\* An entry of a data file: a task dict with the id given and those of the
\* optional keys that are in keys (completed when it has completed_at), or,
\* for dict = FALSE, a JSON value that is no object.
LegacyEntry(id, dict, keys) ==
    IF dict
    THEN [dict |-> TRUE,
          obj |-> [id |-> id, description |-> <<"a">>, priority |-> "low",
                   status |-> IF "completed_at" \in keys THEN "completed"
                              ELSE "pending",
                   created_at |-> 0]
                  @@ [k \in keys |->
                         IF k = "completed_at" THEN Some(0)
                         ELSE IF k = "category" THEN TextWork
                         ELSE DueLeap]]
    ELSE NotADict

EntryChoices ==
    {[dict |-> TRUE, keys |-> K] : K \in SUBSET OptionalKeys}
        \cup {[dict |-> FALSE, keys |-> {}]}

\* The data files of this and of earlier revisions: up to MaxEntries
\* entries, numbered by their place.
LegacyFiles ==
    UNION {{[kind |-> "list",
             items |-> [p \in 1..n |->
                           LegacyEntry(p, c[p].dict, c[p].keys)]] :
               c \in [1..n -> EntryChoices]} :
           n \in 0..MaxEntries}

\* TaskManager(data_file) on one of these files.
InitLoad ==
    /\ file \in LegacyFiles
    /\ now = 0
    /\ tasks = load_tasks(file, now)
    /\ tmp = MissingFile
    /\ pc = "idle"
    /\ result = Result("load", "none", 0)
    /\ issued = {}
    /\ fails = 0
    /\ peer = NoStore

NextLoad ==
    \/ \E id \in IdInputs : DeleteTask(id)
    \/ SaveOpenTmp
    \/ SaveDump
    \/ SaveReplace
    \/ Restart

\* The store constructed on a file of this or an earlier revision, its
\* tasks deleted, its process restarted.
SpecLoad == InitLoad /\ [][NextLoad]_vars

NextQuery ==
    \/ \E a \in QueryAddInputs :
          AddTask(a.description, a.priority, a.category, a.due_date)
    \/ \E id \in IdInputs : CompleteTask(id)
    \/ \E id \in IdInputs : DeleteTask(id)
    \/ \E id \in IdInputs, u \in UpdateInputs :
          UpdateTask(id, u.description, u.priority, u.category, u.due_date)
    \/ SaveOpenTmp
    \/ SaveDump
    \/ SaveReplace
    \/ \E keyword \in QueryTexts : SearchTasks(keyword)
    \/ \E category \in QueryTexts : ListTasksByCategory(category)
    \/ GetStatistics

\* A store that started empty, with the calls that only read it.
SpecQuery == InitEmpty /\ [][NextQuery]_vars

\* ------------------------------------------------------------ the steps
\* The step in which add_task appends its task.
AddStep == pc = "idle" /\ pc' = "save" /\ result'.op = "add"

\* The step in which add_task returns its id.
AddReturn == pc = "replace" /\ pc' = "idle" /\ result'.ret = "id"

HasId(ts, task_id) == \E i \in 1..Len(ts) : ts[i].id = task_id

IdsUnique(ts) ==
    \A i, j \in 1..Len(ts) : i # j => ts[i].id # ts[j].id

Last(ts) == ts[Len(ts)]

\* The add calls whose due date is given and is no valid YYYY-MM-DD date.
BadDueDateAdds ==
    {a \in AddInputs : Len(a.due_date) # 0 /\ ~Strptime(a.due_date).ok}

\* ------------------------------------------------------------ the claims

\* C1: for any sequence of add and delete calls on one store, the ids add
\* returns are pairwise distinct: add never returns an id it has returned
\* before, also when the task that held it has been deleted.
C1_IssuedIdsDistinct == [][AddReturn => result'.val \notin issued]_vars

\* C2: every mutation is flushed before the call returns: when add, update,
\* complete or delete has returned its success value, the data file holds
\* exactly the in-memory collection.
C2_FlushedOnSuccess ==
    (pc = "idle" /\ result.ret \in {"id", "True"}) => file = Dump(tasks)

\* A successful update on a store one of whose earlier saves failed.
C2_Witness ==
    /\ pc = "idle"
    /\ result = Result("update", "True", 0)
    /\ fails = 1
    /\ Len(tasks) = 2

\* C3: save is atomic with respect to the data file: every step, the steps
\* inside a save and a crash at any of them included, leaves the data file
\* as it was or replaces it by the complete dump of the collection being
\* saved; the data file never holds a partially written text.
C3_SaveAtomic ==
    [][/\ file'.kind # "partial"
       /\ file' # file => (pc = "replace" /\ file' = Dump(tasks))]_vars

\* Inside a save: the temporary file is partially written, the data file
\* still holds the previous collection, which differs from the new one.
C3_Witness ==
    /\ pc = "dump"
    /\ tmp.kind = "partial"
    /\ file.kind = "list"
    /\ Len(file.items) = 2
    /\ file # Dump(tasks)

\* C4: ids are unique within the collection in every reachable state, from
\* an empty store or a loaded collection of distinct ids (gapped, out of
\* order), and each id add issues is greater than every id in the
\* collection at the time of the call.
C4_IdsUnique ==
    /\ [](IdsUnique(tasks))
    /\ [][AddStep => \A i \in 1..Len(tasks) : result'.val > tasks[i].id]_vars

\* add has returned 3 on the loaded collection whose only id was 2.
C4_Witness ==
    /\ result = Result("add", "id", 3)
    /\ Len(tasks) = 2
    /\ tasks[1].id = 2
    /\ tasks[2].id = 3

\* C5: status is a one-way transition: the record add appends is pending
\* with no completed_at; the record complete finds becomes completed with
\* completed_at set; and no step moves a record of the collection from
\* completed to another status.
C5_StatusOneWay ==
    [][/\ AddStep => (Last(tasks').status = "pending"
                      /\ IsNone(Last(tasks').completed_at))
       /\ \A id \in IdInputs :
             (HasId(tasks, id) /\ CompleteTask(id)) =>
                 \E i \in 1..Len(tasks') :
                     /\ tasks'[i].id = id
                     /\ tasks'[i].status = "completed"
                     /\ ~IsNone(tasks'[i].completed_at)
       /\ \A i \in 1..Len(tasks), j \in 1..Len(tasks') :
             (tasks[i].id = tasks'[j].id /\ tasks[i].status = "completed")
                 => tasks'[j].status = "completed"]_vars

\* The only record is completed and the last call was a successful update
\* of it.
C5_Witness ==
    /\ pc = "idle"
    /\ result = Result("update", "True", 0)
    /\ Len(tasks) = 1
    /\ tasks[1].status = "completed"
    /\ tasks[1].description = <<"b">>

\* C6: add rejects an empty description: the call signals a validation
\* failure, appends no record and leaves the collection and the data file
\* as they were.
C6_AddRejectsEmptyDescription ==
    [][\A a \in AddInputs :
          (/\ a.description = << >>
           /\ AddTask(a.description, a.priority, a.category, a.due_date))
              => (/\ result'.ret = "ValueError"
                  /\ pc' = "idle"
                  /\ tasks' = tasks
                  /\ file' = file)]_vars

\* C7: on a store that started empty, every record's priority is one of
\* high, medium, low after any sequence of add and update calls with
\* arbitrary priority arguments.
C7_PriorityInEnumeration ==
    \A i \in 1..Len(tasks) : tasks[i].priority \in Priorities

\* C8: update with a supplied non-empty due date that is no valid
\* YYYY-MM-DD date aborts the whole update: no record changes and the data
\* file is not rewritten.
C8_UpdateRejectsBadDueDate ==
    [][\A id \in IdInputs, u \in UpdateInputs :
          (/\ HasId(tasks, id)
           /\ ~IsNone(u.due_date)
           /\ ~normalize_due_date(u.due_date[1]).ok
           /\ UpdateTask(id, u.description, u.priority, u.category,
                         u.due_date))
              => (/\ pc' = "idle"
                  /\ tasks' = tasks
                  /\ file' = file)]_vars

\* C9: add with an invalid due date aborts with no mutation: the call
\* raises the format error, the collection and the data file are unchanged,
\* no save starts, and the id the next add would issue is unchanged.
C9_AddBadDueDateNoMutation ==
    [][\A a \in BadDueDateAdds :
          AddTask(a.description, a.priority, a.category, a.due_date)
              => (/\ result' = Result("add", "ValueError", 0)
                  /\ pc' = "idle"
                  /\ tasks' = tasks
                  /\ file' = file
                  /\ new_id(tasks') = new_id(tasks))]_vars

\* add has raised the format error on a store that holds a task.
C9_Witness ==
    /\ pc = "idle"
    /\ result = Result("add", "ValueError", 0)
    /\ Len(tasks) = 1
    /\ file = Dump(tasks)

\* C10: not-found is a plain False with no effect: complete, update or
\* delete called with an id that is not in the collection returns False
\* without raising, starts no save and leaves the collection and the data
\* file unchanged.
C10_NotFoundNoEffect ==
    [][\A id \in IdInputs :
          (/\ ~HasId(tasks, id)
           /\ \/ CompleteTask(id)
              \/ DeleteTask(id)
              \/ \E u \in UpdateInputs :
                    UpdateTask(id, u.description, u.priority, u.category,
                               u.due_date))
              => (/\ result'.ret = "False"
                  /\ result'.op \in {"complete", "delete", "update"}
                  /\ pc' = "idle"
                  /\ tasks' = tasks
                  /\ file' = file)]_vars

\* complete has returned False on the id 1 that add issued and delete
\* removed.
C10_Witness ==
    /\ pc = "idle"
    /\ result = Result("complete", "False", 0)
    /\ issued = {1}
    /\ Len(tasks) = 0
    /\ file = Dump(<< >>)

\* A record r of the list ts has the id n, the fields of the add call a,
\* status pending and no completed_at.
HoldsAdded(ts, n, a) ==
    \E i \in 1..Len(ts) :
        /\ ts[i].id = n
        /\ ts[i].description = a.description
        /\ ts[i].priority = a.priority
        /\ ts[i].category = a.category
        /\ ts[i].due_date = a.due_date
        /\ ts[i].status = "pending"
        /\ IsNone(ts[i].completed_at)

\* C11: when add, called with a non-empty description and a recognized
\* priority, has appended its record under the id n it returns, the lookup
\* of n, the search by the description and the listing of the category
\* each give a record with id n whose description, priority, category and
\* due_date are exactly the supplied values, pending and without
\* completed_at; that record is the last of the collection and the earlier
\* records are unchanged.
C11_AddThenLookup ==
    [][\A a \in QueryAddInputs :
          (/\ a.description # << >>
           /\ a.priority \in Priorities
           /\ AddStep
           /\ AddTask(a.description, a.priority, a.category, a.due_date))
              => LET n == result'.val
                 IN  /\ FirstIndex(tasks', n) # 0
                     /\ HoldsAdded(<<tasks'[FirstIndex(tasks', n)]>>, n, a)
                     /\ HoldsAdded(search_tasks(tasks', a.description), n, a)
                     /\ HoldsAdded(list_tasks_by_category(tasks', a.category),
                                   n, a)
                     /\ HoldsAdded(<<Last(tasks')>>, n, a)
                     /\ SubSeq(tasks', 1, Len(tasks)) = tasks]_vars

\* C12: round trip: when a call of add, update, complete or delete has
\* returned its success value, so that the collection has been saved, a
\* TaskManager freshly constructed on the same data file loads a
\* collection equal to the saved one, record for record and field for
\* field, in the same order.
C12_RoundTrip ==
    [][(pc = "idle" /\ result.ret \in {"id", "True"} /\ Restart)
          => tasks' = tasks]_vars

\* A freshly constructed store has loaded two saved records, the first of
\* them completed.
C12_Witness ==
    /\ result.op = "load"
    /\ now > 0
    /\ Len(tasks) = 2
    /\ tasks[1].status = "completed"
    /\ ~IsNone(tasks[1].completed_at)
    /\ file = Dump(tasks)

\* C13: read errors are recovered: constructing the store on a data file
\* that is missing, unreadable, malformed or no list of records does not
\* raise and gives an empty collection; the add that follows returns id 1,
\* and when it has returned the data file holds exactly its one record.
C13_ReadErrorsRecovered ==
    /\ [](pc # "raised")
    /\ [](result.op = "load" => tasks = << >>)
    /\ [][(result.op = "load" /\ AddStep)
             => (result'.val = 1 /\ Len(tasks') = 1)]_vars
    /\ [][AddReturn => file' = Dump(tasks)]_vars

\* The step in which save_tasks fails inside a mutating call.
FailStep == pc # "idle" /\ pc' = "idle" /\ fails' = fails + 1

\* C14: a failed write is surfaced: the step in which save_tasks fails
\* inside add, update, complete or delete ends the call with the error and
\* not with its success value (no id, no True); the data file is untouched
\* and holds no partial text; the collection keeps the mutation (the record
\* an add appended is still there).
C14_FailedWriteSurfaced ==
    [][FailStep =>
          (/\ result'.op = result.op
           /\ result'.ret = "OSError"
           /\ file' = file
           /\ file.kind # "partial"
           /\ tasks' = tasks
           /\ result.op = "add" => HasId(tasks', result.val))]_vars

\* The second add has failed in save_tasks: the collection holds its record,
\* the data file holds the collection saved by the first add.
C14_Witness ==
    /\ pc = "idle"
    /\ result = Result("add", "OSError", 0)
    /\ Len(tasks) = 2
    /\ file = Dump(SubSeq(tasks, 1, 1))
    /\ issued = {1}

\* How many records of ts satisfy the status st and, if pr is not "any",
\* the priority pr.
Count(ts, st, pr) ==
    Cardinality({i \in 1..Len(ts) :
                    ts[i].status = st /\ (pr = "any" \/ ts[i].priority = pr)})

\* C15: on a store that started empty, in every state the calls of add,
\* update, complete and delete reach, what get_statistics returns is the
\* aggregate of the collection: total is the number of records, completed
\* and pending the numbers of records of those statuses,
\* high_priority_pending the number of pending records of priority high,
\* and total = completed + pending; the call changes neither the
\* collection nor the data file.
C15_StatisticsAggregate ==
    /\ [](LET st == get_statistics(tasks)
          IN  /\ st.total = Len(tasks)
              /\ st.completed = Count(tasks, "completed", "any")
              /\ st.pending = Count(tasks, "pending", "any")
              /\ st.high_priority_pending = Count(tasks, "pending", "high")
              /\ st.total = st.completed + st.pending)
    /\ [][result'.op = "statistics" => (tasks' = tasks /\ file' = file)]_vars

\* get_statistics has returned on a collection whose only record is of
\* priority high and completed: it counts in completed and not in
\* high_priority_pending.
C15_Witness ==
    /\ result = Result("statistics", "dict", 1)
    /\ Len(tasks) = 1
    /\ tasks[1].priority = "high"
    /\ tasks[1].status = "completed"
    /\ get_statistics(tasks).completed = 1
    /\ get_statistics(tasks).high_priority_pending = 0

\* The tier of a priority in the sorted view: high, then medium, then low
\* and everything else.
Tier(p) == IF p = "high" THEN 1 ELSE IF p = "medium" THEN 2 ELSE 3

\* C16: what sort_tasks("priority") returns is a permutation of the
\* collection, ordered by tier (high, medium, then low with the
\* unrecognized priorities) and inside a tier by ascending id; the ids 1..4
\* with the priorities low, high, high, medium come out as 2, 3, 4, 1; and
\* the call leaves the stored order of the collection as it was.
C16_SortedByPriority ==
    /\ [](LET v == sort_tasks(tasks, "priority")
          IN  /\ Len(v) = Len(tasks)
              /\ \A i \in 1..Len(tasks) : \E j \in 1..Len(v) : v[j] = tasks[i]
              /\ \A i, j \in 1..Len(v) :
                    i < j =>
                       \/ Tier(v[i].priority) < Tier(v[j].priority)
                       \/ /\ Tier(v[i].priority) = Tier(v[j].priority)
                          /\ v[i].id < v[j].id
              /\ (/\ Len(tasks) = 4
                  /\ [i \in 1..4 |-> tasks[i].id] = <<1, 2, 3, 4>>
                  /\ [i \in 1..4 |-> tasks[i].priority] =
                         <<"low", "high", "high", "medium">>)
                     => [i \in 1..4 |-> v[i].id] = <<2, 3, 4, 1>>)
    /\ [][result'.op = "sort" => (tasks' = tasks /\ file' = file)]_vars

\* sort_tasks("priority") has returned on the collection stored with the
\* ids 4, 3, 2, 1 and the priorities high, urgent, high, low: it gives the
\* ids 2, 4, 1, 3 and the stored order is as it was.
C16_Witness ==
    /\ result = Result("sort", "priority", 4)
    /\ Len(tasks) = 4
    /\ [i \in 1..4 |-> tasks[i].id] = <<4, 3, 2, 1>>
    /\ [i \in 1..4 |-> tasks[i].priority] = <<"high", "urgent", "high", "low">>
    /\ [i \in 1..4 |-> sort_tasks(tasks, "priority")[i].id] = <<2, 4, 1, 3>>

\* C17: update_task on an id the collection holds is tri-state per field:
\* an argument that is None leaves its field as it was; the empty string
\* for description or priority leaves that field as it was; the empty
\* string for category or due_date clears that field; and the call changes
\* neither the record's id, status, created_at and completed_at, nor any
\* other record, nor the order of the collection.
C17_UpdateTriState ==
    [][\A id \in IdInputs, u \in UpdateInputs :
          (/\ HasId(tasks, id)
           /\ UpdateTask(id, u.description, u.priority, u.category,
                         u.due_date))
              => LET i == FirstIndex(tasks, id)
                     old == tasks[i]
                     new == tasks'[i]
                 IN  /\ Len(tasks') = Len(tasks)
                     /\ \A j \in 1..Len(tasks) : j # i => tasks'[j] = tasks[j]
                     /\ new.id = old.id
                     /\ new.status = old.status
                     /\ new.created_at = old.created_at
                     /\ new.completed_at = old.completed_at
                     /\ (IsNone(u.description) \/ u.description = Some(<< >>))
                           => new.description = old.description
                     /\ (IsNone(u.priority) \/ u.priority = Some(""))
                           => new.priority = old.priority
                     /\ IsNone(u.category) => new.category = old.category
                     /\ IsNone(u.due_date) => new.due_date = old.due_date
                     /\ u.category = Some(<< >>) => new.category = << >>
                     /\ u.due_date = Some(<< >>) => new.due_date = << >>]_vars

\* update_task has returned True on the record that add_task stored with a
\* category and a due date: called with empty strings, it has cleared both
\* and left the empty description and the priority as they were.
C17_Witness ==
    /\ pc = "idle"
    /\ result = Result("update", "True", 0)
    /\ Len(tasks) = 1
    /\ tasks[1].priority = "high"
    /\ tasks[1].description = << >>
    /\ tasks[1].category = << >>
    /\ tasks[1].due_date = << >>

\* C18: completed_at is set exactly once per record: it is absent while
\* the record is pending, and once it is set no step, a further
\* complete_task on the same id included, changes its value.
C18_CompletedAtSetOnce ==
    /\ [](\A i \in 1..Len(tasks) :
             tasks[i].status = "pending" => IsNone(tasks[i].completed_at))
    /\ [][\A i \in 1..Len(tasks), j \in 1..Len(tasks') :
             (tasks[i].id = tasks'[j].id /\ ~IsNone(tasks[i].completed_at))
                 => tasks'[j].completed_at = tasks[i].completed_at]_vars

AllKeys ==
    {"id", "description", "priority", "status", "created_at",
     "completed_at", "category", "due_date"}

\* C19: back-fill on load only adds missing fields: in the collection a
\* constructed store has loaded, the records are the file's task entries
\* in their order; a record has every field; a field its entry had keeps
\* the stored value; a category or due_date the entry lacked is the empty
\* string and a completed_at it lacked is None.
C19_BackfillOnlyAdds ==
    result.op = "load" =>
        LET IsDict(item) == item.dict
            entries == SelectSeq(file.items, IsDict)
        IN  /\ Len(tasks) = Len(entries)
            /\ \A k \in 1..Len(entries) :
                  LET entry == entries[k].obj
                      task == tasks[k]
                  IN  /\ DOMAIN task = AllKeys
                      /\ \A key \in DOMAIN entry : task[key] = entry[key]
                      /\ "category" \notin DOMAIN entry
                            => task.category = << >>
                      /\ "due_date" \notin DOMAIN entry
                            => task.due_date = << >>
                      /\ "completed_at" \notin DOMAIN entry
                            => task.completed_at = None

\* The loaded file has an entry without the optional fields, then one with
\* them all.
C19_Witness ==
    /\ result.op = "load"
    /\ Len(file.items) = 2
    /\ file.items[1].dict
    /\ DOMAIN file.items[1].obj \cap OptionalKeys = {}
    /\ file.items[2].dict
    /\ OptionalKeys \subseteq DOMAIN file.items[2].obj
    /\ tasks[1].category = << >>
    /\ tasks[2].category = TextWork
    /\ tasks[2].completed_at = Some(0)

\* C20: concurrent writers are not protected, though each save is atomic:
\* with two stores on one data file, every change of the file puts one
\* store's whole collection in its place, and a save that has returned
\* leaves in the file the collection of the store that saved and nothing
\* of the other's.
C20_LastWriterWins ==
    /\ [][file' # file =>
             (file' = Dump(tasks) \/ file' = Dump(peer.tasks))]_vars
    /\ [][(peer.pc = "replace" /\ peer'.pc = "idle")
             => file' = Dump(peer.tasks)]_vars
    /\ [][(pc = "replace" /\ pc' = "idle") => file' = Dump(tasks)]_vars

\* A lost update: add_task has returned its id in the first store, whose
\* save put the task in the data file; the second store's save has
\* returned since, and the data file holds its collection, without the
\* task.
C20_Witness ==
    /\ pc = "idle"
    /\ result.op = "add"
    /\ result.ret = "id"
    /\ peer.pc = "idle"
    /\ peer.result.ret \in {"id", "True"}
    /\ file = Dump(peer.tasks)
    /\ \A i \in 1..Len(file.items) :
          file.items[i].obj # tasks[Len(tasks)]

====
